---- MODULE Spec2Model ----
(***************************************************************************)
(* Gesture-driven morphing display: the hand-gesture classifier            *)
(* (VisionService), the application's gesture -> mode wiring (App), the    *)
(* point-cloud generators (utils/geometry) and the canvas component        *)
(* (ChristmasCanvas): the scene its main effect builds, its frame loop     *)
(* animate, and its mode effect with the morph tween and the timelines of  *)
(* the star and of the decorations; beside them App's music (the audio     *)
(* element, its lock and the promises of play()), the unmount of the       *)
(* canvas with the camera stream it opened, and the landmarkers the        *)
(* service creates.                                                        *)
(*                                                                         *)
(* Numbers.  Landmark coordinates are integers on a grid; every sample     *)
(* point lies at an integer planar distance from the wrist, so Math.hypot  *)
(* is computed exactly.  The morph value is a fixed-point number with      *)
(* MorphOne standing for 1.0; a tween rounds each rendered value to the    *)
(* nearest unit.  Time of the tween ticker is counted in units of          *)
(* 2.2 s / MorphDuration.  Lengths, angles (radians), intensities and the  *)
(* clock of the frame loop are counted in hundredths; the star group's     *)
(* angle about its axis in half turns.                                     *)
(*                                                                         *)
(* Frames.  animate and the ticker of the tween library are two callbacks  *)
(* of requestAnimationFrame; the callbacks of one animation frame run in   *)
(* the order in which they were requested, and everything else (promises,  *)
(* video frames, effects) happens between two animation frames.            *)
(*                                                                         *)
(* Left out: the renderer, the camera and its zoom, the town, the colours  *)
(* and textures, and the orientation of the chasers beyond the point they  *)
(* look at.                                                                *)
(***************************************************************************)
EXTENDS Integers, Sequences, FiniteSets, TLC

VARIABLES
    visionInit,      \* position of initVision: "loading", "camera", "started", "failed"
    handLandmarker,  \* VisionService.handLandmarker is loaded (non-null)
    svcVideo,        \* VisionService.video is set (non-null)
    lastVideoTime,   \* VisionService.lastVideoTime
    video,           \* the video element: currentTime, videoWidth, and the hands
                     \* the landmarker finds in the frame now showing
    results,         \* last call of detect: what detectForVideo returned (ran = FALSE
                     \* when the call did not reach it)
    ret,             \* last call of detect: the value returned, or threw = TRUE
    visionState,     \* App state visionState
    effGesture,      \* visionState.gesture as of the last run of App's gesture effect
    mode,            \* App state mode
    activeGift,      \* App state activeGift (0 = null)
    unopenedGifts,   \* App state unopenedGifts
    targetMode,      \* prop targetMode as of the last run of the canvas's mode effect
    morph,           \* morphState.current.value, in units of 1/MorphOne
    tweens,          \* live tweens of morphState.current, in start order
    timelines,       \* live timelines of the scene's objects, in start order
    particleCount,   \* the count the point-cloud generators are called with
    random,          \* the draws of Math.random() the generators consume
    treePositions,   \* treePositionsRef.current
    spherePositions, \* spherePositionsRef.current
    geometry,        \* the position buffer of each BufferGeometry
    scene,           \* the objects of the scene: transforms, children
    materials,       \* of each material the frame loop writes, the value it writes:
                     \* a mesh's emissiveIntensity, a glow's opacity
    animFrame,       \* last call of animate: its time, its flicker draw, the
                     \* morph value it read, and whether it reached render
    rafQueue,        \* callbacks requested for the next animation frame, in
                     \* the order of their requests
    rafRun,          \* callbacks of the running animation frame still to run
    audioLock,       \* App's audioLock.current
    audio,           \* the Audio element: paused, the play() promises still
                     \* pending, and whether its loading has failed (error)
    isMusicPlaying,  \* App state isMusicPlaying
    mounted,         \* the canvas component is mounted
    stream,          \* the MediaStream initVision opened: "none" before
                     \* getUserMedia resolves, then "live", "stopped" once its
                     \* tracks have been stopped
    initialize2,     \* a second call of VisionService.initialize(): "none",
                     \* "loading", "done", or "returned" when it found the
                     \* landmarker loaded
    created          \* the HandLandmarkers created so far

vars == <<visionInit, handLandmarker, svcVideo, lastVideoTime, video, results, ret,
          visionState, effGesture, mode, activeGift, unopenedGifts, targetMode,
          morph, tweens, timelines, particleCount, random, treePositions,
          spherePositions, geometry, scene, materials, animFrame, rafQueue, rafRun,
          audioLock, audio, isMusicPlaying, mounted, stream, initialize2, created>>

visionVars == <<visionInit, handLandmarker, svcVideo, lastVideoTime, video, results, ret>>
appVars    == <<visionState, effGesture, mode, activeGift, unopenedGifts>>
canvasVars == <<targetMode, morph, tweens, timelines>>
cloudVars  == <<particleCount, random, treePositions, spherePositions>>
sceneVars  == <<geometry, scene, materials, animFrame>>
rafVars    == <<rafQueue, rafRun>>
audioVars  == <<audioLock, audio, isMusicPlaying>>
lifeVars   == <<mounted, stream, initialize2, created>>

----------------------------------------------------------------------------
(* Bounds of the model *)

MaxVideoTime == 1     \* video.currentTime ranges over 0..MaxVideoTime
MaxGifts == 2         \* gifts received in the URL: 0..MaxGifts of them
MaxTweens == 2        \* the mode effect is not run with more live morph tweens
MaxDelta == 2         \* a ticker tick advances the tweens by 1..MaxDelta time units
MorphDuration == 4    \* the 2.2 s of the morph tween, in time units
MorphOne == 64        \* the morph value 1.0 in fixed point

----------------------------------------------------------------------------
(* Hand landmarks *)

Pt(x, y, z) == [x |-> x, y |-> y, z |-> z]

\* tips[i], pips[i] for the loop index i-1 of detect
tips == <<8, 12, 16, 20>>
pips == <<6, 10, 14, 18>>

FullHandLen == tips[4] + 1

\* landmarks[j] of JavaScript (0-based); undefined when j >= landmarks.length
Defined(landmarks, j) == j < Len(landmarks)
At(landmarks, j) == landmarks[j + 1]

\* Finger poses: offsets of the tip and of the proximal joint from the wrist.
\*   Tucked:   tip at distance 3, joint at 5                 dTip <  dPip
\*   Slack:    tip at distance 11, joint at 10        dPip < dTip <  dPip*1.2
\*   Straight: tip at distance 12, joint at 5                dTip >  dPip*1.2
\*   Folded:   tip at distance 5 (13 in space), joint at 5   dTip <  dPip*1.2
\*   Edge:     tip at distance 6, joint at 5                 dTip =  dPip*1.2
Tucked   == [tip |-> Pt(3, 0, 0),  pip |-> Pt(4, 3, 0)]
Slack    == [tip |-> Pt(0, 11, 0), pip |-> Pt(0, 10, 0)]
Straight == [tip |-> Pt(0, 12, 0), pip |-> Pt(4, 3, 1)]
Folded   == [tip |-> Pt(3, 4, 12), pip |-> Pt(5, 0, 0)]
Edge     == [tip |-> Pt(6, 0, 2),  pip |-> Pt(3, 4, 0)]

Shift(w, o) == Pt(w.x + o.x, w.y + o.y, w.z + o.z)

\* The 21 landmarks of a hand with the wrist at w and finger i in pose f[i]
Hand(w, f) ==
    [k \in 1..FullHandLen |->
        IF k - 1 = 0 THEN w
        ELSE IF \E i \in 1..4 : tips[i] = k - 1
             THEN Shift(w, f[CHOOSE i \in 1..4 : tips[i] = k - 1].tip)
        ELSE IF \E i \in 1..4 : pips[i] = k - 1
             THEN Shift(w, f[CHOOSE i \in 1..4 : pips[i] = k - 1].pip)
        ELSE Shift(w, Pt(1, 1, 0))]

\* Hands with the wrist at the origin and each finger slack or straight, or
\* tucked or straight, and hands with the wrist elsewhere and each finger
\* folded or on the edge of the margin.
FullHands ==
    { Hand(Pt(0, 0, 0), f) : f \in [1..4 -> {Slack, Straight}] }
    \cup { Hand(Pt(0, 0, 0), f) : f \in [1..4 -> {Tucked, Straight}] }
    \cup { Hand(Pt(2, 1, 0), f) : f \in [1..4 -> {Folded, Edge}] }

\* Lengths of the landmark sets of partly occluded hands
PartialLens == {0, 7, 19, 20}

PartialHands ==
    { SubSeq(Hand(Pt(0, 0, 0), [i \in 1..4 |-> p]), 1, n) :
        p \in {Tucked, Straight}, n \in PartialLens }

\* results.landmarks: one entry per detected hand (numHands: 1)
AllFrames == {<<>>} \cup { <<h>> : h \in FullHands \cup PartialHands }

\* The frames the whole application is run on: no hand, a fist, an open palm.
Fist == Hand(Pt(0, 0, 0), [i \in 1..4 |-> Tucked])
Palm == Hand(Pt(0, 0, 0), [i \in 1..4 |-> Straight])

SampleFrames == { <<>>, <<Fist>>, <<Palm>> }

----------------------------------------------------------------------------
(* VisionService.detect *)

Returned(g, p) == [gesture |-> g, isPresent |-> p, threw |-> FALSE]
\* a TypeError leaves detect: no value is returned
Thrown == [gesture |-> "TypeError", isPresent |-> FALSE, threw |-> TRUE]

NotRun == [ran |-> FALSE, landmarks |-> <<>>]
Ran(frame) == [ran |-> TRUE, landmarks |-> frame]

\* Math.hypot on two integers whose sum of squares is a square
hypot(dx, dy) == CHOOSE d \in 0..(dx * dx + dy * dy) : d * d = dx * dx + dy * dy

\* Reading landmarks[tips[i]].x or landmarks[pips[i]].x of an undefined entry
\* (or wrist.x of an undefined wrist) raises a TypeError.
ReadThrows(landmarks, i) ==
    \/ ~Defined(landmarks, tips[i])
    \/ ~Defined(landmarks, 0)
    \/ ~Defined(landmarks, pips[i])

\* variant of WithinMargin: the comparison written <=
WithinMarginOrOnIt(dTip, dPip) == dTip * 10 <= dPip * 12

\* dTip < dPip * 1.2, both sides times 10
WithinMargin(dTip, dPip) == dTip * 10 < dPip * 12

PlanarDistance(p, wrist) == hypot(p.x - wrist.x, p.y - wrist.y)

IsCurled(landmarks, i) ==
    LET wrist == At(landmarks, 0)
        dTip  == PlanarDistance(At(landmarks, tips[i]), wrist)
        dPip  == PlanarDistance(At(landmarks, pips[i]), wrist)
    IN  WithinMargin(dTip, dPip)

\* the loop for(let i=0; i<4; i++): curledCount after the iterations from..4
RECURSIVE CurledCount(_, _, _)
CurledCount(landmarks, from, curledCount) ==
    IF from > 4 THEN curledCount
    ELSE CurledCount(landmarks, from + 1,
                     IF IsCurled(landmarks, from) THEN curledCount + 1 ELSE curledCount)

\* variant of IsFist: the threshold one too low
FistAtTwo(curledCount) == curledCount >= 2

\* curledCount >= 3
IsFist(curledCount) == curledCount >= 3

\* variant of Classify: an open palm reported as not present
ClassifyPalmAbsent(landmarks) ==
    IF \E i \in 1..4 : ReadThrows(landmarks, i) THEN Thrown
    ELSE IF IsFist(CurledCount(landmarks, 1, 0))
         THEN Returned("Closed_Fist", TRUE)
         ELSE Returned("Open_Palm", FALSE)

\* the gesture of the first detected hand
Classify(landmarks) ==
    IF \E i \in 1..4 : ReadThrows(landmarks, i) THEN Thrown
    ELSE IF IsFist(CurledCount(landmarks, 1, 0))
         THEN Returned("Closed_Fist", TRUE)
         ELSE Returned("Open_Palm", TRUE)

\* variant of HasHand: results.landmarks.length is not tested
HasHandUnchecked(frame) == TRUE

\* results.landmarks && results.landmarks.length > 0
HasHand(frame) == Len(frame) > 0

\* detectForVideo has run on a new frame and returned `frame`
\* (results.landmarks); with no hand, detect falls through to the last return.
\* Reading landmarks[0] of an empty results.landmarks gives undefined.
Interpret(frame) ==
    IF HasHand(frame)
    THEN IF Len(frame) > 0 THEN Classify(frame[1]) ELSE Thrown
    ELSE Returned("None", FALSE)

\* this.video.currentTime !== this.lastVideoTime
IsNewFrame(currentTime, last) == currentTime # last

\* detect(): the value returned (or thrown), what detectForVideo gave, and
\* the new lastVideoTime
detect(landmarker, vid, last, v) ==
    IF ~landmarker \/ ~vid
    THEN [ret |-> Returned("None", FALSE), results |-> NotRun, last |-> last]
    ELSE IF v.videoWidth = 0 \/ v.videoHeight = 0
    THEN [ret |-> Returned("None", FALSE), results |-> NotRun, last |-> last]
    ELSE IF IsNewFrame(v.currentTime, last)
    THEN [ret |-> Interpret(v.frame), results |-> Ran(v.frame), last |-> v.currentTime]
    ELSE [ret |-> Returned("None", FALSE), results |-> NotRun, last |-> last]

----------------------------------------------------------------------------
(* App: gesture -> mode, gifts *)

TREE == "TREE"
SPHERE == "SPHERE"

\* variant of ModeForGesture: the two modes exchanged
ModeForGestureSwapped(gesture, m) ==
    IF gesture = "Closed_Fist" THEN SPHERE
    ELSE IF gesture = "Open_Palm" THEN TREE
    ELSE m

\* variant of ModeForGesture: a final else that falls back to the tree
ModeForGestureDefaultTree(gesture, m) ==
    IF gesture = "Open_Palm" THEN SPHERE ELSE TREE

\* the mode the gesture effect sets (setMode), or leaves
ModeForGesture(gesture, m) ==
    IF gesture = "Closed_Fist" THEN TREE
    ELSE IF gesture = "Open_Palm" THEN SPHERE
    ELSE m

\* variant of Splice: the list left as it was
SpliceNothing(list, index) == list

\* newList.splice(randomIndex, 1), for the 1-based index
Splice(list, index) == SubSeq(list, 1, index - 1) \o SubSeq(list, index + 1, Len(list))

\* the gift lists a URL can carry: gifts 1..n in order
GiftLists == { [i \in 1..n |-> i] : n \in 0..MaxGifts }

----------------------------------------------------------------------------
(* Numbers of the scene *)

\* 1.0 in the fixed point of the scene: coordinates, angles (radians),
\* intensities and the clock (seconds) are counted in hundredths
Centi == 100

\* Math.PI
Pi == 314

Max(a, b) == IF a > b THEN a ELSE b
Abs(a) == IF a < 0 THEN 0 - a ELSE a

\* Math.sqrt, rounded down
IntSqrt(n) == CHOOSE r \in 0..n : r * r <= n /\ (r + 1) * (r + 1) > n

\* Math.sin on [0, pi], by Bhaskara's formula 16x(pi-x) / (5pi^2 - 4x(pi-x));
\* it is exact at 0, pi/2 and pi
SinHalf(x) == (16 * x * (Pi - x) * Centi) \div (5 * Pi * Pi - 4 * x * (Pi - x))

\* Math.sin, Math.cos
SinTable == [x \in 0..(2 * Pi - 1) |-> IF x <= Pi THEN SinHalf(x) ELSE 0 - SinHalf(x - Pi)]

Sin(a) == SinTable[a % (2 * Pi)]

Cos(a) == Sin(a + Pi \div 2)

\* a * b for two fixed-point numbers
Times(a, b) == (a * b) \div Centi

----------------------------------------------------------------------------
(* utils/geometry: the two point-cloud generators *)

\* What a reference to a Float32Array holds: null, an array, or nothing
\* because the call that was to produce it threw a RangeError
NullRef == [status |-> "null", array |-> <<>>]
ArrayRef(array) == [status |-> "array", array |-> array]
RangeError == [status |-> "RangeError", array |-> <<>>]

\* new Float32Array(length): a RangeError for a negative length, and a
\* zero-filled array otherwise
InvalidLength(length) == length < 0
Float32Array(length) == [k \in 1..length |-> 0]

\* Math.pow(u, 1.5) = u * sqrt(u)
PowThreeHalves(u) == Times(u, IntSqrt(u * Centi))

\* Math.pow(v, 0.8), to one decimal: the fifth root of v^4
PowFourFifths(v) ==
    LET q == v \div 10
    IN  10 * (CHOOSE r \in 0..10 :
                 r * r * r * r * r <= q * q * q * q * 10
                 /\ (r + 1) * (r + 1) * (r + 1) * (r + 1) * (r + 1) > q * q * q * q * 10)

\* One pass of the loop of generateTreePositions: the point of a particle
\* whose four Math.random() draws are d.height, d.spiral, d.scatter, d.layer
TreePoint(d) ==
    LET height        == 16 * Centi
        maxBaseRadius == 750
        hRand         == PowThreeHalves(d.height)
        y             == Times(hRand, height) - height \div 2
        yNorm         == ((y + height \div 2) * Centi) \div height
        coneRadius    == Times(Centi - PowFourFifths(yNorm), maxBaseRadius)
        layerEffect   == Sin(Times(yNorm, Pi * 10)) \div 2 + Centi \div 2
        spiralAngle   == (y * 5) \div 2 + Times(d.spiral, 2 * Pi)
        r             == Times(coneRadius, 60 + Times(40, d.scatter))
                         + Times(Times(layerEffect, 150), d.layer)
        finalR        == Max(0, r)
    IN  <<Times(finalR, Cos(spiralAngle)), y, Times(finalR, Sin(spiralAngle))>>

\* variant of SphereRadius: the hollow centre forgotten
SphereRadiusFromCentre(rNorm) == Times(rNorm, 800)

\* const r = minRadius + (rNorm * (maxRadius - minRadius))
SphereRadius(rNorm) == 150 + Times(rNorm, 800 - 150)

\* One pass of the loop of generateSpherePositions, for the draws d.theta,
\* d.phi, d.rand, d.radial.  The polar angle phi = acos(2u - 1) is kept as
\* its cosine, which determines it on [0, pi]: cos(phi) = 2u - 1 and
\* sin(phi) = sqrt(1 - cos(phi)^2).
SpherePoint(d) ==
    LET theta  == Times(d.theta, 2 * Pi)
        cosPhi == 2 * d.phi - Centi
        sinPhi == IntSqrt(Centi * Centi - cosPhi * cosPhi)
        rNorm  == IF d.rand < 40
                  THEN Times(d.radial, 30)
                  ELSE 30 + Times(d.radial, 70)
        r      == SphereRadius(rNorm)
    IN  <<Times(Times(r, sinPhi), Cos(theta)),
          Times(Times(r, sinPhi), Sin(theta)),
          Times(r, cosPhi)>>

\* the loop for (let i = 0; i < count; i++) writing positions[i3 .. i3 + 2],
\* points[i + 1] being the point computed in pass i
RECURSIVE FillPositions(_, _, _, _)
FillPositions(positions, i, count, points) ==
    IF i >= count THEN positions
    ELSE FillPositions([positions EXCEPT ![3 * i + 1] = points[i + 1][1],
                                         ![3 * i + 2] = points[i + 1][2],
                                         ![3 * i + 3] = points[i + 1][3]],
                       i + 1, count, points)

\* variant of LoopEnd: the last particle left out
LoopEndShort(count) == count - 1

\* the bound of the generators' loops
LoopEnd(count) == count

generateTreePositions(count, rnd) ==
    IF InvalidLength(count * 3) THEN RangeError
    ELSE ArrayRef(FillPositions(Float32Array(count * 3), 0, LoopEnd(count),
                                [i \in 1..count |-> TreePoint(rnd[i])]))

generateSpherePositions(count, rnd) ==
    IF InvalidLength(count * 3) THEN RangeError
    ELSE ArrayRef(FillPositions(Float32Array(count * 3), 0, LoopEnd(count),
                                [i \in 1..count |-> SpherePoint(rnd[i])]))

\* The draws of Math.random() for one particle, in hundredths: the four of
\* the tree generator and the four of the sphere generator.
Draw(h, sp, sc, la, th, ph, ra, rd) ==
    [height |-> h, spiral |-> sp, scatter |-> sc, layer |-> la,
     theta |-> th, phi |-> ph, rand |-> ra, radial |-> rd]

\* Sample draws: the extremes of every draw, both regimes of the sphere's
\* radius and the boundary 0.4 between them, directions along and off the
\* axes.
DrawList ==
    << Draw(0, 0, 0, 0,     0, 50, 0, 0),
       Draw(99, 50, 99, 99, 25, 80, 39, 99),
       Draw(25, 25, 0, 99,  50, 20, 40, 0),
       Draw(64, 75, 99, 0,  75, 0, 99, 99),
       Draw(4, 50, 50, 50,  0, 90, 20, 50),
       Draw(81, 0, 99, 99,  25, 10, 60, 50) >>

Draws == { DrawList[k] : k \in 1..Len(DrawList) }

----------------------------------------------------------------------------
(* ChristmasCanvas: the scene built by the main effect *)

\* Bounds of the scene
ParticleCount == 2    \* particleCount (2500 in the component)
SnowCount == 1        \* snowCount (500 in the component), where it snows

\* the decorations created by the loop for (let i = 0; i < 40; i++)
DecorationCount == 40

\* The snow falls SnowFall per frame from SnowTop and reappears at SnowTop
\* once below -SnowTop (0.02 - 0.07 per frame between 40 and -40 in the
\* component).
SnowTop == 1
SnowFall == 2

\* the random stream of the generators: particle i + 1 draws SampleRandom[i + 1]
SampleRandom == [i \in 1..ParticleCount |-> DrawList[((i - 1) % Len(DrawList)) + 1]]

XYZ(x, y, z) == [x |-> x, y |-> y, z |-> z]

\* The materials createDecoration makes for decoration i (of the loop, from
\* 0): the one of its mesh, whose emissiveIntensity the frame loop writes,
\* the one of its glow sprite, whose opacity it writes, and the one of its
\* other parts (ribbons, the snowman's body), which nothing writes.
MeshMaterialOf(i)  == i + 1
GlowMaterialOf(i)  == DecorationCount + i + 1
PartsMaterialOf(i) == 2 * DecorationCount + i + 1

\* the draws of Math.random() in createDecoration for decoration i: a fixed
\* stream that makes gifts, baubles and snowmen
DecorationDraw(i) ==
    [type |-> (i * 37) % Centi, radius |-> (i * 61) % Centi,
     theta |-> (i * 25) % Centi, phi |-> DrawList[(i % Len(DrawList)) + 1].phi]

Gift(d)    == d.type < 33
Bauble(d)  == ~Gift(d) /\ d.type < 66
Snowman(d) == ~Gift(d) /\ ~Bauble(d)

\* createDecoration: the object returned for decoration i.  A gift is a Mesh
\* with two ribbons and a glow, a bauble a Mesh with a glow, a floating
\* snowman a Group of body parts with the glow createSnowmanMesh adds.
createDecoration(isReflection, i) ==
    LET d      == DecorationDraw(i)
        radius == 400 + Times(d.radius, 600)
        cosPhi == 2 * d.phi - Centi
        sinPhi == IntSqrt(Centi * Centi - cosPhi * cosPhi)
        glow   == [type |-> "Sprite", material |-> GlowMaterialOf(i)]
        part   == [type |-> "Mesh", material |-> PartsMaterialOf(i)]
    IN  [type     |-> IF Snowman(d) THEN "Group" ELSE "Mesh",
         material |-> IF Snowman(d) THEN 0 ELSE MeshMaterialOf(i),
         position |-> XYZ(Times(Times(radius, sinPhi), Cos(Times(d.theta, 2 * Pi))),
                          Times(Times(radius, sinPhi), Sin(Times(d.theta, 2 * Pi))),
                          Times(radius, cosPhi)),
         children |-> IF Gift(d) THEN <<part, part, glow>>
                      ELSE IF Bauble(d) THEN <<glow>>
                      ELSE <<part, glow>>]

\* The value createDecoration gives the material `id` of a decoration: the
\* emissiveIntensity of a mesh's material, the opacity of a glow's
DecorationMaterial(isReflection, id) ==
    LET i == (id - 1) % DecorationCount
        d == DecorationDraw(i)
    IN  IF id = MeshMaterialOf(i)
        THEN IF Gift(d) THEN (IF isReflection THEN 30 ELSE 60)
             ELSE IF Bauble(d) THEN (IF isReflection THEN 35 ELSE 70)
             ELSE 0
        ELSE IF Snowman(d) THEN 50
             ELSE (IF isReflection THEN 20 ELSE 40)

\* createSnowmanMesh: the emissive intensity of snowMat, the material of a
\* snowman's body, which nothing writes after its making
SnowEmissive == 120

\* Object3D.clone(): Mesh.copy and Sprite.copy take over the source's
\* material (and geometry) by reference, the children are cloned in turn
Clone(object) == object

\* variant of ReflectParticles: the mirrored cloud on a geometry of its own
ReflectParticlesOwn(sharedGeometry) == [geometry |-> sharedGeometry + 1]

\* new THREE.Points(geometry, material.clone()): the mirrored cloud on the
\* geometry of the primary one
ReflectParticles(sharedGeometry) == [geometry |-> sharedGeometry]

\* variant of DecorationLoopEnd: one decoration fewer
DecorationLoopEndShort == DecorationCount - 1

\* the bound of the loop for (let i = 0; i < 40; i++)
DecorationLoopEnd == DecorationCount

\* The loop making the decorations: the objects it adds to decGroup and,
\* cloned, to reflectDecGroup
RECURSIVE DecorationLoop(_, _, _)
DecorationLoop(i, decChildren, reflectChildren) ==
    IF i >= DecorationLoopEnd
    THEN [dec |-> decChildren, reflect |-> reflectChildren]
    ELSE LET dec        == createDecoration(FALSE, i)
             reflectDec == Clone(dec)
         IN  DecorationLoop(i + 1, Append(decChildren, dec),
                            Append(reflectChildren, reflectDec))

\* The decorations are not written after the loop (the frame loop writes
\* their materials): the scene holds each by its number, the primary ones
\* from 1 and their clones after them.
Decorations == DecorationLoop(0, <<>>, <<>>)
Object(id) ==
    IF id <= Len(Decorations.dec) THEN Decorations.dec[id]
    ELSE Decorations.reflect[id - Len(Decorations.dec)]

\* A chaser on its orbit: where it is and the point it looks at
Pose(position, lookAt) == [position |-> position, lookAt |-> lookAt]

\* The scene after the set-up of the main effect, before the first frame:
\* the transforms and children of the objects the frame loop and the
\* timelines write.
SceneSetup(snow) ==
    [pivot               |-> [rotation |-> XYZ(0, 0, 0)],
     reflectionPivot     |-> [rotation |-> XYZ(0, 0, 0)],
     particles           |-> [geometry |-> 1],
     reflectParticles    |-> ReflectParticles(1),
     starGroup           |-> [position |-> XYZ(0, 780, 0), rotation |-> XYZ(0, 0, 0),
                              scale |-> Centi],
     reflectionStarGroup |-> [position |-> XYZ(0, 780, 0), rotation |-> XYZ(0, 0, 0)],
     starMesh            |-> [rotation |-> XYZ(0, 0, 0), emissiveIntensity |-> 150],
     reflectStarMesh     |-> [rotation |-> XYZ(0, 0, 0), emissiveIntensity |-> 50],
     decGroup            |-> [rotation |-> XYZ(0, 0, 0), scale |-> 0,
                              children |-> [k \in 1..Len(Decorations.dec) |-> k]],
     reflectDecGroup     |-> [rotation |-> XYZ(0, 0, 0), scale |-> 0,
                              children |-> [k \in 1..Len(Decorations.reflect) |->
                                               Len(Decorations.dec) + k]],
     santa               |-> Pose(XYZ(0, 0, 0), XYZ(0, 0, 0)),
     freeSnowman         |-> Pose(XYZ(0, 0, 0), XYZ(0, 0, 0)),
     corgi               |-> Pose(XYZ(0, 0, 0), XYZ(0, 0, 0)),
     snow                |-> snow]

\* the materials the decorations' objects refer to
UsedMaterials ==
    UNION { {Object(id).material} \cup
            { Object(id).children[k].material : k \in DOMAIN Object(id).children } :
            id \in 1..(Len(Decorations.dec) + Len(Decorations.reflect)) }

\* the materials the frame loop may write, with the values of their making
MaterialsSetup ==
    [id \in UsedMaterials \cap (1..(2 * DecorationCount)) |-> DecorationMaterial(FALSE, id)]

\* the position buffers: one per geometry, each made as a copy of the tree
GeometrySetup(sc, tree) ==
    [g \in {sc.particles.geometry, sc.reflectParticles.geometry} |-> tree]

----------------------------------------------------------------------------
(* ChristmasCanvas: animate, the frame loop *)

\* pivotRef.current.rotation.y = time * 0.1, .x = sin(time * 0.5) * 0.03
PivotRotation(time) == XYZ(Times(Sin(time \div 2), 3), time \div 10, 0)

\* variant of SyncPivot: the tilt of the pivot not taken over
SyncPivotTurnOnly(reflection, pivot) ==
    [reflection EXCEPT !.rotation.y = pivot.rotation.y]

\* the reflection pivot takes the x and y rotation of the pivot
SyncPivot(reflection, pivot) ==
    [reflection EXCEPT !.rotation.y = pivot.rotation.y, !.rotation.x = pivot.rotation.x]

\* positions[i * 3 + 1] -= velocities[i], and back to the top once below
SnowStep(snow) ==
    [i \in DOMAIN snow |-> IF snow[i] - SnowFall < 0 - SnowTop THEN SnowTop
                           ELSE snow[i] - SnowFall]

\* tree * (1 - currentMorph) + sphere * currentMorph
Lerp(tree, sphere, currentMorph) ==
    (tree * (MorphOne - currentMorph) + sphere * currentMorph) \div MorphOne

\* variant of Breathe: the motion added to what the buffer holds
BreatheOnTop(old, target, wave) == old + Times(wave, 15)

\* target plus the breathing term of amplitude noiseAmp = 0.15
Breathe(old, target, wave) == target + Times(wave, 15)

\* The morph loop: the position buffer after the passes i < count, each
\* writing positions[i3 .. i3 + 2] from the two clouds, the morph value and
\* the time.
RECURSIVE MorphLoop(_, _, _, _, _, _, _)
MorphLoop(positions, i, count, tree, sphere, currentMorph, time) ==
    IF i >= count THEN positions
    ELSE LET i3         == i * 3
             targetX    == Lerp(tree[i3 + 1], sphere[i3 + 1], currentMorph)
             targetY    == Lerp(tree[i3 + 2], sphere[i3 + 2], currentMorph)
             targetZ    == Lerp(tree[i3 + 3], sphere[i3 + 3], currentMorph)
             timeOffset == (time * 3) \div 2
             breatheX   == Sin(targetY \div 2 + timeOffset)
             breatheY   == Cos(targetX \div 2 + (timeOffset * 8) \div 10) \div 2
             breatheZ   == Sin(targetY \div 2 + (timeOffset * 12) \div 10)
         IN  MorphLoop([positions EXCEPT
                           ![i3 + 1] = Breathe(positions[i3 + 1], targetX, breatheX),
                           ![i3 + 2] = Breathe(positions[i3 + 2], targetY, breatheY),
                           ![i3 + 3] = Breathe(positions[i3 + 3], targetZ, breatheZ)],
                       i + 1, count, tree, sphere, currentMorph, time)

\* const phase = i * 13.0 + child.position.x
Phase(i, child) == i * 13 * Centi + child.position.x

\* variant of TwinkleIntensity: every decoration twinkling in step, the
\* phase left out
TwinkleInStep(time, phase) ==
    70 + Times(Sin(time * 2), 15) + Times(Cos((time * 53) \div 10), 5)

\* 0.7 + sin(time * 2 + phase) * 0.15 + cos(time * 5.3 + phase) * 0.05
TwinkleIntensity(time, phase) ==
    70 + Times(Sin(time * 2 + phase), 15) + Times(Cos((time * 53) \div 10 + phase), 5)

\* 0.4 + sin(time * 2.5 + phase) * 0.1
TwinkleOpacity(time, phase) == 40 + Times(Sin((time * 5) \div 2 + phase), 10)

\* child.children.forEach: every Sprite among the children of a decoration
\* has the opacity of its material set
RECURSIVE GlowLoop(_, _, _, _)
GlowLoop(mats, grandchildren, k, opacity) ==
    IF k > Len(grandchildren) \/ mats = <<>> THEN mats
    ELSE GlowLoop(IF grandchildren[k].type = "Sprite"
                  THEN [mats EXCEPT ![grandchildren[k].material] = opacity]
                  ELSE mats,
                  grandchildren, k + 1, opacity)

\* decorationsGroupRef.current.children.forEach: the materials after child i
\* and the children after it have been visited.  A child of type Mesh has
\* its material's emissive intensity set, and the sprites among a child's
\* children their opacity.
RECURSIVE TwinkleLoop(_, _, _, _)
TwinkleLoop(mats, children, i, time) ==
    IF i >= Len(children) \/ mats = <<>> THEN mats
    ELSE LET child == Object(children[i + 1])
             phase == Phase(i, child)
             lit   == IF child.type = "Mesh"
                      THEN [mats EXCEPT ![child.material] = TwinkleIntensity(time, phase)]
                      ELSE mats
         IN  TwinkleLoop(GlowLoop(lit, child.children, 1, TwinkleOpacity(time, phase)),
                         children, i + 1, time)

\* variant of corgiAngle: the second follower ahead of the shared angle
corgiAngleAhead(angle) == angle + 80

\* const santaAngle = angle + 0.8: the leader's place on the orbit
santaAngle(angle) == angle + 80

\* const corgiAngle = angle - 0.8: the second follower's
corgiAngle(angle) == angle - 80

\* A chaser at `angle` on the orbit of radius 13, bobbing from baseY with the
\* frequency bobFreq and the amplitude bobAmp, looking at the point 0.1
\* further on the orbit
Chaser(angle, baseY, time, bobFreq, bobAmp) ==
    Pose(XYZ(Times(Cos(angle), 1300),
             baseY + Times(Abs(Sin(time * bobFreq)), bobAmp),
             Times(Sin(angle), 1300)),
         XYZ(Times(Cos(angle + 10), 1300), baseY, Times(Sin(angle + 10), 1300)))

\* const angle = time * orbitSpeed
OrbitAngle(time) == (time * 4) \div 10

\* starMesh.rotation.z = sin(time * 2) * 0.1, .x = cos(time * 1.5) * 0.1
StarMeshRotation(time) == XYZ(Times(Cos((time * 3) \div 2), 10), 0, Times(Sin(time * 2), 10))

\* pulse + flicker, for the draw u of Math.random()
StarIntensity(time, u) == Times(Sin((time * 5) \div 2), 20) + 150 + Times(u - 50, 30)

\* the intensity of the mirrored star
ReflectStarIntensity(totalIntensity) == Times(totalIntensity, 30)

\* The objects of the scene after the frame at `time` with the flicker draw
\* u: everything animate writes but the position buffer and the materials.
FrameScene(sc, time, u) ==
    LET pivot    == [sc.pivot EXCEPT !.rotation = PivotRotation(time)]
        starMesh == [rotation |-> StarMeshRotation(time),
                     emissiveIntensity |-> StarIntensity(time, u)]
    IN  [sc EXCEPT
           !.pivot               = pivot,
           !.reflectionPivot     = SyncPivot(sc.reflectionPivot, pivot),
           !.snow                = SnowStep(sc.snow),
           !.decGroup.rotation.y = Times(time, 8),
           !.reflectDecGroup.rotation.y = Times(time, 8),
           !.santa               = Chaser(santaAngle(OrbitAngle(time)), -700, time, 4, 30),
           !.freeSnowman         = Chaser(OrbitAngle(time), -700, time, 3, 50),
           !.corgi               = Chaser(corgiAngle(OrbitAngle(time)), -750, time, 8, 20),
           !.starMesh            = starMesh,
           !.reflectStarMesh     = [rotation |-> starMesh.rotation,
                                    emissiveIntensity |->
                                        ReflectStarIntensity(starMesh.emissiveIntensity)],
           !.reflectionStarGroup = [position |-> sc.starGroup.position,
                                    rotation |-> sc.starGroup.rotation]]

----------------------------------------------------------------------------
(* ChristmasCanvas: the morph tween *)

\* gsap.to(morphState.current, {value: 0}) in TREE mode, {value: 1} otherwise
MorphTarget(m) == IF m = TREE THEN 0 ELSE MorphOne

\* ease "power2.inOut": p < 0.5 ? 4p^3 : 1 - 4(1-p)^3 at p = t/MorphDuration,
\* as the numerator over EaseDen
EaseDen == MorphDuration * MorphDuration * MorphDuration

\* variant of Ease: "back.inOut", which dips below 0 and swings past 1
EaseBack(t) ==
    IF t = MorphDuration THEN EaseDen
    ELSE IF 2 * t < MorphDuration
    THEN 0 - 4 * t * t * t
    ELSE EaseDen + 4 * (MorphDuration - t) * (MorphDuration - t) * (MorphDuration - t)

\* variant of Ease: "elastic.out", which swings past 1 before it settles
EaseElastic(t) ==
    IF t = 0 THEN 0
    ELSE IF t = MorphDuration THEN EaseDen
    ELSE EaseDen + (MorphDuration - t) * MorphDuration

Ease(t) ==
    IF 2 * t < MorphDuration
    THEN 4 * t * t * t
    ELSE EaseDen - 4 * (MorphDuration - t) * (MorphDuration - t) * (MorphDuration - t)

\* the value a tween from s to e renders at time t: s + (e - s) * ratio,
\* rounded to the nearest unit (Math.round: halves go up)
TweenValue(s, e, t) ==
    (2 * (s * EaseDen + (e - s) * Ease(t)) + EaseDen) \div (2 * EaseDen)

\* variant of NewTween: gsap.fromTo from the other end of the range
NewTweenFromFarEnd(e) == [init |-> TRUE, s |-> MorphOne - e, e |-> e, t |-> 0]

\* a tween as gsap.to creates it: its start value is read at its first render
NewTween(e) == [init |-> FALSE, s |-> 0, e |-> e, t |-> 0]

Min(a, b) == IF a < b THEN a ELSE b

\* One tick of the ticker, delta time units after the last: the live tweens
\* render in start order, each writing morphState.current.value; a tween
\* that has reached its duration is removed.  The result is the value left
\* in the field and the tweens still live.
RECURSIVE RenderFrom(_, _, _, _, _)
RenderFrom(tws, i, value, delta, kept) ==
    IF i > Len(tws) THEN [value |-> value, tweens |-> kept]
    ELSE LET tw == tws[i]
             s  == IF tw.init THEN tw.s ELSE value
             t  == Min(MorphDuration, tw.t + delta)
             v  == TweenValue(s, tw.e, t)
         IN  RenderFrom(tws, i + 1, v, delta,
                        IF t = MorphDuration THEN kept
                        ELSE Append(kept, [init |-> TRUE, s |-> s, e |-> tw.e, t |-> t]))

----------------------------------------------------------------------------
(* ChristmasCanvas: the timelines of the mode effect on the scene *)

\* Durations, in the time units of the ticker (0.55 s): the star's travel and
\* turn take the 2.2 s of the morph; its pulse 0.8 s out and 0.8 s back; the
\* decorations shrink in 1 s, and pop in over 1.5 s after a delay of 0.5 s.
PulseDuration == 1
ShrinkDuration == 2
PopDelay == 1
PopDuration == 3

\* Math.PI * 2, one turn of the star: the angle of the star group about its
\* axis is counted in half turns
Turn == 2

\* 2^(-10p) for p in hundredths, linear between the powers of two
Pow2Neg(p) ==
    LET k    == p \div 10
        f    == p % 10
        half == Centi \div (2 ^ k)
    IN  half - (half * f) \div 20

\* The ratio of an ease at time t of a tween of duration d, in hundredths:
\* power2 is the cube, power3 the fourth power, elastic.out(1, 0.75) is
\* 2^(-10p) sin((p - 0.1875) 2 pi / 0.75) + 1.
EaseRatio(ease, t, d) ==
    LET p == (t * Centi) \div d
    IN  IF t <= 0 THEN 0
        ELSE IF t >= d THEN Centi
        ELSE IF ease = "power2.inOut"
        THEN IF 2 * t < d THEN (4 * Centi * t * t * t) \div (d * d * d)
             ELSE Centi - (4 * Centi * (d - t) * (d - t) * (d - t)) \div (d * d * d)
        ELSE IF ease = "power3.inOut"
        THEN IF 2 * t < d THEN (8 * Centi * t * t * t * t) \div (d * d * d * d)
             ELSE Centi - (8 * Centi * (d - t) * (d - t) * (d - t) * (d - t))
                          \div (d * d * d * d)
        ELSE IF ease = "power2.in"
        THEN (Centi * t * t * t) \div (d * d * d)
        ELSE IF ease = "sine.inOut"
        THEN (Centi - Cos((Pi * t) \div d)) \div 2
        ELSE Centi + Times(Pow2Neg(p), Sin(((p - 19) * 2 * Pi) \div 75))

\* gsap.to(target, {duration, delay, ease}): the start value is read at the
\* first render
To(target, e, delay, duration, ease) ==
    [target |-> target, init |-> FALSE, s |-> 0, e |-> e, t |-> 0,
     delay |-> delay, duration |-> duration, ease |-> ease, yoyo |-> FALSE]

\* gsap.fromTo(target, {from}, {to, yoyo: true, repeat: 1}): out and back
FromToYoyo(target, s, e, duration, ease) ==
    [target |-> target, init |-> TRUE, s |-> s, e |-> e, t |-> 0,
     delay |-> 0, duration |-> duration, ease |-> ease, yoyo |-> TRUE]

\* the time a timeline is live for
TotalTime(tl) == tl.delay + (IF tl.yoyo THEN 2 * tl.duration ELSE tl.duration)

\* the value of the animated property
Property(sc, target) ==
    IF target = "starPosition" THEN sc.starGroup.position.y
    ELSE IF target = "starRotation" THEN sc.starGroup.rotation.y
    ELSE IF target = "starScale" THEN sc.starGroup.scale
    ELSE IF target = "decScale" THEN sc.decGroup.scale
    ELSE sc.reflectDecGroup.scale

SetProperty(sc, target, v) ==
    IF target = "starPosition" THEN [sc EXCEPT !.starGroup.position.y = v]
    ELSE IF target = "starRotation" THEN [sc EXCEPT !.starGroup.rotation.y = v]
    ELSE IF target = "starScale" THEN [sc EXCEPT !.starGroup.scale = v]
    ELSE IF target = "decScale" THEN [sc EXCEPT !.decGroup.scale = v]
    ELSE [sc EXCEPT !.reflectDecGroup.scale = v]

\* the value a timeline from s renders at its time t (past its delay)
TimelineValue(tl, s, t) ==
    LET local == t - tl.delay
        back  == IF tl.yoyo /\ local > tl.duration THEN 2 * tl.duration - local ELSE local
        ratio == EaseRatio(tl.ease, back, tl.duration)
    IN  (2 * (s * Centi + (tl.e - s) * ratio) + Centi) \div (2 * Centi)

\* The timelines the mode effect starts on the scene for the mode m, in the
\* order of the calls; the targets that are relative to the current value
\* are computed at the call.
SceneTimelines(m, sc) ==
    IF m = TREE
    THEN << To("starPosition", 780, 0, MorphDuration, "power3.inOut"),
            To("starRotation", sc.starGroup.rotation.y + Turn, 0, MorphDuration,
               "power2.inOut"),
            FromToYoyo("starScale", Centi, 130, PulseDuration, "sine.inOut"),
            To("decScale", 0, 0, ShrinkDuration, "power2.in"),
            To("reflectDecScale", 0, 0, ShrinkDuration, "power2.in") >>
    ELSE << To("starPosition", 0, 0, MorphDuration, "power3.inOut"),
            To("starRotation", sc.starGroup.rotation.y - Turn, 0, MorphDuration,
               "power2.inOut"),
            FromToYoyo("starScale", Centi, 220, PulseDuration, "sine.inOut"),
            To("decScale", Centi, PopDelay, PopDuration, "elastic.out(1, 0.75)"),
            To("reflectDecScale", Centi, PopDelay, PopDuration, "elastic.out(1, 0.75)") >>

\* gsap.fromTo renders its start value at the call
RECURSIVE ImmediateRender(_, _, _)
ImmediateRender(tls, i, sc) ==
    IF i > Len(tls) THEN sc
    ELSE ImmediateRender(tls, i + 1,
                         IF tls[i].init THEN SetProperty(sc, tls[i].target, tls[i].s)
                         ELSE sc)

\* One tick of the ticker for the timelines of the scene, as RenderFrom: a
\* timeline within its delay writes nothing, and one past its total time is
\* removed.
RECURSIVE RenderTimelines(_, _, _, _, _)
RenderTimelines(tls, i, sc, delta, kept) ==
    IF i > Len(tls) THEN [scene |-> sc, timelines |-> kept]
    ELSE LET tl == tls[i]
             t  == Min(TotalTime(tl), tl.t + delta)
             s  == IF tl.init THEN tl.s ELSE Property(sc, tl.target)
         IN  IF t < tl.delay
             THEN RenderTimelines(tls, i + 1, sc, delta, Append(kept, [tl EXCEPT !.t = t]))
             ELSE RenderTimelines(tls, i + 1,
                                  SetProperty(sc, tl.target, TimelineValue(tl, s, t)),
                                  delta,
                                  IF t = TotalTime(tl) THEN kept
                                  ELSE Append(kept, [tl EXCEPT !.init = TRUE, !.s = s,
                                                               !.t = t]))

\* The star's angle is kept within one turn: whole turns are taken off the
\* angle and off the ends of the live turns of the star alike.
WholeTurns(sc) == (sc.starGroup.rotation.y \div Turn) * Turn

Unwind(r) ==
    LET w == WholeTurns(r.scene)
    IN  [scene     |-> [r.scene EXCEPT !.starGroup.rotation.y = @ - w],
         timelines |-> [k \in DOMAIN r.timelines |->
                           IF r.timelines[k].target = "starRotation"
                           THEN [r.timelines[k] EXCEPT !.s = IF r.timelines[k].init
                                                              THEN @ - w ELSE @,
                                                       !.e = @ - w]
                           ELSE r.timelines[k]]]

----------------------------------------------------------------------------
(* State *)

NoVision == [gesture |-> "None", isPresent |-> FALSE]

\* The first call of animate, made by the main effect itself at time 0,
\* with the flicker draw FirstFlicker
FirstFlicker == 50

Frame(time, u, currentMorph, rendered) ==
    [time |-> time, u |-> u, currentMorph |-> currentMorph, rendered |-> rendered]

\* The callbacks requested for the first animation frame after mount.  The
\* canvas is mounted once the camera has been granted, by when the ticker,
\* idle since the page was loaded, has gone to sleep: animate requests its
\* frame in the main effect, and the ticker its own when the mode effect's
\* first gsap.to wakes it.
MountOrder == <<"animate", "gsap">>

\* the snow as the main effect makes it: every flake at a height of its own
Snow(count) == [i \in 1..count |-> SnowTop - 2 * (i % 2)]

\* handleCameraStart has called playAudio() on its way to mounting the
\* canvas: the lock is taken, play() has unpaused the element and its
\* promise is pending
AudioStarted ==
    /\ audioLock = TRUE
    /\ audio = [paused |-> FALSE, pending |-> 1, error |-> FALSE]
    /\ isMusicPlaying = FALSE

\* the canvas mounted for the first time, initVision in its first await
FirstMount ==
    /\ mounted = TRUE
    /\ stream = "none"
    /\ initialize2 = "none"
    /\ created = 0

\* After mount: initVision has been called and awaits the landmarker; the
\* main effect has built the scene, with the flakes of `snow`, and called
\* animate once; both effects of App and the canvas's mode effect have run
\* once (gesture 'None', mode TREE), so one tween toward 0 and the
\* timelines of TREE are live; the gifts of the URL are in unopenedGifts.
\* With `idle`, some frames later: that first transition, which moves
\* nothing, has run out, and the ticker has gone back to sleep.
Mounted(gifts, snow, idle) ==
    LET tree   == generateTreePositions(ParticleCount, SampleRandom)
        sphere == generateSpherePositions(ParticleCount, SampleRandom)
        setup  == SceneSetup(snow)
        first  == FrameScene(setup, 0, FirstFlicker)
        tls    == SceneTimelines(TREE, first)
    IN  /\ visionInit = "loading"
        /\ handLandmarker = FALSE
        /\ svcVideo = FALSE
        /\ lastVideoTime = -1
        /\ video = [currentTime |-> 0, videoWidth |-> 0, videoHeight |-> 0, frame |-> <<>>]
        /\ results = NotRun
        /\ ret = Returned("None", FALSE)
        /\ visionState = NoVision
        /\ effGesture = "None"
        /\ mode = TREE
        /\ activeGift = 0
        /\ unopenedGifts = gifts
        /\ targetMode = TREE
        /\ morph = 0
        /\ tweens = IF idle THEN <<>> ELSE <<NewTween(MorphTarget(TREE))>>
        /\ timelines = IF idle THEN <<>> ELSE tls
        /\ particleCount = ParticleCount
        /\ random = SampleRandom
        /\ treePositions = tree
        /\ spherePositions = sphere
        /\ geometry = [GeometrySetup(setup, tree.array) EXCEPT
                           ![setup.particles.geometry] =
                               MorphLoop(tree.array, 0, ParticleCount,
                                         tree.array, sphere.array, 0, 0)]
        /\ scene = ImmediateRender(tls, 1, first)
        /\ materials = TwinkleLoop(MaterialsSetup, setup.decGroup.children, 0, 0)
        /\ animFrame = Frame(0, FirstFlicker, 0, TRUE)
        /\ rafQueue = IF idle THEN <<"animate">> ELSE MountOrder
        /\ rafRun = <<>>
        /\ AudioStarted
        /\ FirstMount

\* the application with no snow in the scene
InitWith(gifts) == Mounted(gifts, Snow(0), FALSE)

\* the page opened without gifts in its URL
Init == InitWith(<<>>)

\* the page opened by a recipient, with gifts in its URL
InitGifts == \E gifts \in GiftLists : Mounted(gifts, Snow(0), TRUE)

\* Animation frames.  The callbacks requested during one frame run in the
\* next, in the order of their requests; the frame begins with its first
\* callback.  Due is what is still to run in the frame that is running or
\* about to begin, Requested what has been requested for the one after it.
Due == IF rafRun # <<>> THEN rafRun ELSE rafQueue
Requested == IF rafRun # <<>> THEN rafQueue ELSE <<>>
NextDue(callback) == Due # <<>> /\ Head(Due) = callback

\* the ticker has no callback requested
Asleep == \A k \in 1..Len(rafQueue \o rafRun) : (rafQueue \o rafRun)[k] # "gsap"

\* Promises resolve, the video shows a new picture and effects run between
\* two animation frames, not between two callbacks of one
BetweenFrames == rafRun = <<>>

\* vision.initialize() resolves: the landmarker is loaded
InitializeDone ==
    /\ BetweenFrames
    /\ visionInit = "loading"
    /\ handLandmarker' = TRUE
    /\ visionInit' = "camera"
    /\ created' = created + 1
    /\ UNCHANGED <<svcVideo, lastVideoTime, video, results, ret>>
    /\ UNCHANGED <<appVars, canvasVars, cloudVars, sceneVars, rafVars>>
    /\ UNCHANGED <<audioVars, mounted, stream, initialize2>>

\* getUserMedia resolves: the stream plays in the video element, vision.start
CameraGranted ==
    /\ BetweenFrames
    /\ visionInit = "camera"
    /\ svcVideo' = TRUE
    /\ visionInit' = "started"
    /\ stream' = "live"
    /\ UNCHANGED <<handLandmarker, lastVideoTime, video, results, ret>>
    /\ UNCHANGED <<appVars, canvasVars, cloudVars, sceneVars, rafVars>>
    /\ UNCHANGED <<audioVars, mounted, initialize2, created>>

\* initialize() or getUserMedia rejects: initVision logs and ends
InitVisionFails ==
    /\ BetweenFrames
    /\ visionInit \in {"loading", "camera"}
    /\ visionInit' = "failed"
    /\ UNCHANGED <<handLandmarker, svcVideo, lastVideoTime, video, results, ret>>
    /\ UNCHANGED <<appVars, canvasVars, cloudVars, sceneVars, rafVars>>
    /\ UNCHANGED <<audioVars, lifeVars>>

\* The playing stream shows a frame: the element has dimensions, a current
\* time, and the landmarker would find `frame` in it.
VideoFrame(frames) ==
    /\ BetweenFrames
    /\ visionInit = "started"
    /\ stream = "live"
    /\ \E time \in 0..MaxVideoTime, frame \in frames :
          video' = [currentTime |-> time, videoWidth |-> 640, videoHeight |-> 480,
                    frame |-> frame]
    /\ UNCHANGED <<visionInit, handLandmarker, svcVideo, lastVideoTime, results, ret>>
    /\ UNCHANGED <<appVars, canvasVars, cloudVars, sceneVars, rafVars>>
    /\ UNCHANGED <<audioVars, lifeVars>>

\* variant of CloudAfterFrame: the blend done in place, in the cloud itself
CloudOverwritten(cloud, positions) == ArrayRef(positions)

\* the morph loop reads the two clouds and writes the geometry's buffer only
CloudAfterFrame(cloud, positions) == cloud

\* animate: one frame of the loop, at the clock's time `time` and with the
\* draw u of Math.random() for the star's flicker.  The next frame is
\* requested first.  detect() runs next; when it throws, the frame ends
\* there; otherwise onVisionUpdate = setVisionState receives the result and
\* the frame writes the scene: pivots, snow, the particles' buffer from the
\* morph value as it is now, the decorations' materials, the chasers, the
\* star and its mirror.
Animate(times, flickers) ==
    /\ NextDue("animate")
    /\ rafRun' = Tail(Due)
    /\ rafQueue' = Append(Requested, "animate")
    /\ \E time \in times, u \in flickers :
          LET d            == detect(handLandmarker, svcVideo, lastVideoTime, video)
              currentMorph == morph
              g            == scene.particles.geometry
              positions    == MorphLoop(geometry[g], 0, particleCount,
                                        treePositions.array, spherePositions.array,
                                        currentMorph, time)
          IN  /\ time >= animFrame.time
              /\ lastVideoTime' = d.last
              /\ results' = d.results
              /\ ret' = d.ret
              /\ visionState' = IF d.ret.threw THEN visionState
                                ELSE [gesture |-> d.ret.gesture,
                                      isPresent |-> d.ret.isPresent]
              /\ animFrame' = Frame(time, u, currentMorph, ~d.ret.threw)
              /\ IF d.ret.threw
                 THEN UNCHANGED <<geometry, scene, materials, treePositions, spherePositions>>
                 ELSE /\ geometry' = [geometry EXCEPT ![g] = positions]
                      /\ scene' = FrameScene(scene, time, u)
                      /\ materials' = TwinkleLoop(materials, scene.decGroup.children, 0, time)
                      /\ treePositions' = CloudAfterFrame(treePositions, positions)
                      /\ spherePositions' = CloudAfterFrame(spherePositions, positions)
    /\ UNCHANGED <<visionInit, handLandmarker, svcVideo, video>>
    /\ UNCHANGED <<effGesture, mode, activeGift, unopenedGifts>>
    /\ UNCHANGED <<canvasVars, particleCount, random>>
    /\ UNCHANGED <<audioVars, lifeVars>>

\* App's effect on [visionState.gesture]: runs after a render in which the
\* gesture differs from the one it last ran with.
GestureEffect ==
    /\ BetweenFrames
    /\ visionState.gesture # effGesture
    /\ effGesture' = visionState.gesture
    /\ mode' = ModeForGesture(visionState.gesture, mode)
    /\ IF visionState.gesture = "Closed_Fist"
       THEN /\ activeGift' = 0
            /\ UNCHANGED unopenedGifts
       ELSE IF visionState.gesture = "Open_Palm" /\ activeGift = 0 /\ Len(unopenedGifts) > 0
       THEN \E randomIndex \in 1..Len(unopenedGifts) :
               /\ activeGift' = unopenedGifts[randomIndex]
               /\ unopenedGifts' = Splice(unopenedGifts, randomIndex)
       ELSE UNCHANGED <<activeGift, unopenedGifts>>
    /\ UNCHANGED visionState
    /\ UNCHANGED <<visionVars, canvasVars, cloudVars, sceneVars, rafVars>>
    /\ UNCHANGED <<audioVars, lifeVars>>

\* variant of ModeChanged: an effect without its dependency array, run after
\* every render
RunsEveryRender(m, last) == TRUE

\* the dependency array [targetMode]: the effect runs when the prop differs
\* from the one of its last run
ModeChanged(m, last) == m # last

\* The canvas's effect on [targetMode]: starts the morph tween and the
\* timelines of the star and of the decorations; the first of them wakes a
\* sleeping ticker, which requests its frame then.
ModeEffect ==
    /\ BetweenFrames
    /\ ModeChanged(mode, targetMode)
    /\ Len(tweens) < MaxTweens
    /\ targetMode' = mode
    /\ tweens' = Append(tweens, NewTween(MorphTarget(mode)))
    /\ timelines' = timelines \o SceneTimelines(mode, scene)
    /\ scene' = ImmediateRender(SceneTimelines(mode, scene), 1, scene)
    /\ rafQueue' = IF Asleep THEN Append(rafQueue, "gsap") ELSE rafQueue
    /\ UNCHANGED <<morph, rafRun, geometry, materials, animFrame>>
    /\ UNCHANGED <<visionVars, appVars, cloudVars>>
    /\ UNCHANGED <<audioVars, lifeVars>>

\* The ticker's callback with tweens live, delta time units after its last
\* tick: it requests its next frame and renders the tweens.
GsapTick(deltas) ==
    /\ NextDue("gsap")
    /\ tweens # <<>>
    /\ rafRun' = Tail(Due)
    /\ rafQueue' = Append(Requested, "gsap")
    /\ \E delta \in deltas :
          LET r  == RenderFrom(tweens, 1, morph, delta, <<>>)
              rs == Unwind(RenderTimelines(timelines, 1, scene, delta, <<>>))
          IN  /\ morph' = r.value
              /\ tweens' = r.tweens
              /\ scene' = rs.scene
              /\ timelines' = rs.timelines
    /\ UNCHANGED <<targetMode, geometry, materials, animFrame>>
    /\ UNCHANGED <<visionVars, appVars, cloudVars>>
    /\ UNCHANGED <<audioVars, lifeVars>>

\* The ticker's callback with nothing live: the ticker goes to sleep and
\* requests no frame (after autoSleep = 120 such frames in the library, at
\* the first of them here)
GsapSleep ==
    /\ NextDue("gsap")
    /\ tweens = <<>>
    /\ rafRun' = Tail(Due)
    /\ rafQueue' = Requested
    /\ UNCHANGED <<visionVars, appVars, canvasVars, cloudVars, sceneVars>>
    /\ UNCHANGED <<audioVars, lifeVars>>

\* the callbacks of `queue` without those of animate
RECURSIVE Cancelled(_)
Cancelled(queue) ==
    IF queue = <<>> THEN <<>>
    ELSE IF Head(queue) = "animate" THEN Cancelled(Tail(queue))
    ELSE <<Head(queue)>> \o Cancelled(Tail(queue))

\* The cleanup of the main effect, run when the canvas is unmounted: the
\* listeners are removed, the frame animate requested last is cancelled, the
\* container emptied, and the tracks of the stream are stopped if the video
\* element has one by now.  initVision is not told: what it awaits goes on.
Unmount ==
    /\ BetweenFrames
    /\ mounted
    /\ mounted' = FALSE
    /\ rafQueue' = Cancelled(rafQueue)
    /\ stream' = IF stream = "live" THEN "stopped" ELSE stream
    /\ UNCHANGED <<rafRun, initialize2, created>>
    /\ UNCHANGED <<visionVars, appVars, canvasVars, cloudVars, sceneVars, audioVars>>

\* VisionService.initialize() called a second time on the one instance, as
\* the initVision of a further mount of the canvas does: it returns at once
\* when the landmarker is loaded, and otherwise starts loading
InitializeAgain ==
    /\ BetweenFrames
    /\ initialize2 = "none"
    /\ initialize2' = IF handLandmarker THEN "returned" ELSE "loading"
    /\ UNCHANGED <<mounted, stream, created>>
    /\ UNCHANGED <<visionVars, appVars, canvasVars, cloudVars, sceneVars, rafVars, audioVars>>

\* the second call's createFromOptions resolves: its landmarker is assigned
InitializeAgainDone ==
    /\ BetweenFrames
    /\ initialize2 = "loading"
    /\ initialize2' = "done"
    /\ handLandmarker' = TRUE
    /\ created' = created + 1
    /\ UNCHANGED <<mounted, stream>>
    /\ UNCHANGED <<visionInit, svcVideo, lastVideoTime, video, results, ret>>
    /\ UNCHANGED <<appVars, canvasVars, cloudVars, sceneVars, rafVars, audioVars>>

\* Bound of the audio: play() is not called with MaxPlays promises pending
MaxPlays == 2

\* variant of Locked: the lock not looked at
NeverLocked(lock) == FALSE

\* audioLock.current, as playAudio and pauseAudio test it before they act
Locked(lock) == lock

\* playAudio up to its await: dropped under the lock; otherwise the lock is
\* taken and play() unpauses the element and returns a pending promise
playAudio ==
    IF Locked(audioLock) \/ audio.pending >= MaxPlays
    THEN UNCHANGED audioVars
    ELSE /\ audioLock' = TRUE
         /\ audio' = [audio EXCEPT !.paused = FALSE, !.pending = @ + 1]
         /\ UNCHANGED isMusicPlaying

\* pauseAudio: dropped under the lock; otherwise it takes the lock, pauses,
\* sets isMusicPlaying to false and releases the lock, all in one go
pauseAudio ==
    IF Locked(audioLock)
    THEN UNCHANGED audioVars
    ELSE /\ audioLock' = FALSE
         /\ audio' = [audio EXCEPT !.paused = TRUE]
         /\ isMusicPlaying' = FALSE

\* toggleMusic, the handler of the music button
ToggleMusic ==
    /\ BetweenFrames
    /\ IF audio.paused THEN playAudio ELSE pauseAudio
    /\ UNCHANGED <<visionVars, appVars, canvasVars, cloudVars, sceneVars, rafVars, lifeVars>>

\* handleCameraStart for a further click on the start button made before
\* the first was answered: its getUserMedia resolves, the probe stream is
\* stopped, cameraAllowed is set again and playAudio() called
HandleCameraStart ==
    /\ BetweenFrames
    /\ playAudio
    /\ UNCHANGED <<visionVars, appVars, canvasVars, cloudVars, sceneVars, rafVars, lifeVars>>

\* a promise of play() resolves, playback having started: playAudio goes on
\* after its await, sets isMusicPlaying and releases the lock
PlayResolves ==
    /\ BetweenFrames
    /\ audio.pending > 0
    /\ ~audio.paused
    /\ ~audio.error
    /\ audio' = [audio EXCEPT !.pending = @ - 1]
    /\ isMusicPlaying' = TRUE
    /\ audioLock' = FALSE
    /\ UNCHANGED <<visionVars, appVars, canvasVars, cloudVars, sceneVars, rafVars, lifeVars>>

\* a promise of play() rejects (playback not allowed, the source not
\* playable, or the element paused meanwhile): the catch clears
\* isMusicPlaying and the finally releases the lock.  The element is left
\* paused or not, as the cause of the rejection has it.
PlayRejects ==
    /\ BetweenFrames
    /\ audio.pending > 0
    /\ \E paused \in BOOLEAN :
          audio' = [audio EXCEPT !.pending = @ - 1, !.paused = paused]
    /\ isMusicPlaying' = FALSE
    /\ audioLock' = FALSE
    /\ UNCHANGED <<visionVars, appVars, canvasVars, cloudVars, sceneVars, rafVars, lifeVars>>

\* the 'error' event of the element, when its source cannot be loaded:
\* handleError clears isMusicPlaying
AudioError ==
    /\ BetweenFrames
    /\ ~audio.error
    /\ audio' = [audio EXCEPT !.error = TRUE]
    /\ isMusicPlaying' = FALSE
    /\ UNCHANGED audioLock
    /\ UNCHANGED <<visionVars, appVars, canvasVars, cloudVars, sceneVars, rafVars, lifeVars>>

\* Bounds of the clock and of the flicker: the frames of the scene run at
\* the times 0 and ClockSamples[1 .. MaxClock], never earlier than the frame
\* before, and with the draws of FlickerSamples
MaxClock == 2
ClockSamples == << 157, 400, 628, 1000 >>
ClockTimes(n) == {0} \cup { ClockSamples[k] : k \in 1..n }
FlickerSamples == { 0, FirstFlicker, 99 }

Next ==
    \/ InitializeDone
    \/ CameraGranted
    \/ InitVisionFails
    \/ VideoFrame(SampleFrames)
    \/ Animate(ClockTimes(0), {FirstFlicker})
    \/ GestureEffect
    \/ ModeEffect
    \/ GsapTick(1..MaxDelta)
    \/ GsapSleep

Spec == Init /\ [][Next]_vars

\* The first transition over and the ticker asleep again, while the
\* landmarker is still being loaded
InitIdle == Mounted(<<>>, Snow(0), TRUE)

\* The classifier alone, on every frame of AllFrames
NextVision ==
    \/ InitializeDone
    \/ CameraGranted
    \/ InitVisionFails
    \/ VideoFrame(AllFrames)
    \/ Animate(ClockTimes(0), {FirstFlicker})

SpecVision == InitIdle /\ [][NextVision]_vars

\* The application opened with gifts
NextGifts ==
    \/ InitializeDone
    \/ CameraGranted
    \/ VideoFrame(SampleFrames)
    \/ Animate(ClockTimes(0), {FirstFlicker})
    \/ GestureEffect
    \/ ModeEffect
    \/ GsapTick({MaxDelta})
    \/ GsapSleep

SpecGifts == InitGifts /\ [][NextGifts]_vars

\* The scene with its snow, under one hand, at every clock sample and with
\* every flicker draw
SceneFrames == { <<>>, <<Palm>> }

InitScene == Mounted(<<>>, Snow(SnowCount), FALSE)

NextScene ==
    \/ InitializeDone
    \/ CameraGranted
    \/ VideoFrame(SceneFrames)
    \/ Animate(ClockTimes(MaxClock), FlickerSamples)
    \/ GestureEffect
    \/ ModeEffect
    \/ GsapTick({MaxDelta})
    \/ GsapSleep

SpecScene == InitScene /\ [][NextScene]_vars

\* The music beside the classifier: the button, further answers to the
\* start button, the promises of play() and the element's error
NextAudio ==
    \/ InitializeDone
    \/ CameraGranted
    \/ VideoFrame(SceneFrames)
    \/ Animate(ClockTimes(0), {FirstFlicker})
    \/ ToggleMusic
    \/ HandleCameraStart
    \/ PlayResolves
    \/ PlayRejects
    \/ AudioError

SpecAudio == InitIdle /\ [][NextAudio]_vars

\* The life of the canvas and of the landmarker: the unmount and a second
\* call of initialize() at any moment of initVision and of the frame loop
NextLife ==
    \/ InitializeDone
    \/ CameraGranted
    \/ InitVisionFails
    \/ VideoFrame(SceneFrames)
    \/ Animate(ClockTimes(0), {FirstFlicker})
    \/ Unmount
    \/ InitializeAgain
    \/ InitializeAgainDone

SpecLife == InitIdle /\ [][NextLife]_vars

\* The generators alone: the main effect at the two calls and at its first
\* call of animate, for every count from -1 up to MaxCount and every stream
\* of draws
MaxCount == 2

InitGeometry ==
    /\ visionInit = "loading"
    /\ handLandmarker = FALSE
    /\ svcVideo = FALSE
    /\ lastVideoTime = -1
    /\ video = [currentTime |-> 0, videoWidth |-> 0, videoHeight |-> 0, frame |-> <<>>]
    /\ results = NotRun
    /\ ret = Returned("None", FALSE)
    /\ visionState = NoVision
    /\ effGesture = "None"
    /\ mode = TREE
    /\ activeGift = 0
    /\ unopenedGifts = <<>>
    /\ targetMode = TREE
    /\ morph = 0
    /\ tweens = <<>>
    /\ timelines = <<>>
    /\ particleCount \in (0 - 1)..MaxCount
    /\ random \in [1..MaxCount -> Draws]
    /\ treePositions = NullRef
    /\ spherePositions = NullRef
    /\ geometry = <<>>
    /\ scene = SceneSetup(Snow(0))
    /\ materials = MaterialsSetup
    /\ animFrame = Frame(0, FirstFlicker, 0, FALSE)
    /\ rafQueue = <<>>
    /\ rafRun = <<>>
    /\ AudioStarted
    /\ FirstMount

\* treePositionsRef.current = generateTreePositions(particleCount)
GenerateTree ==
    /\ treePositions = NullRef
    /\ treePositions' = generateTreePositions(particleCount, random)
    /\ UNCHANGED <<particleCount, random, spherePositions>>
    /\ UNCHANGED <<visionVars, appVars, canvasVars, sceneVars, rafVars>>
    /\ UNCHANGED <<audioVars, lifeVars>>

\* spherePositionsRef.current = generateSpherePositions(particleCount)
GenerateSphere ==
    /\ treePositions.status = "array"
    /\ spherePositions = NullRef
    /\ spherePositions' = generateSpherePositions(particleCount, random)
    /\ UNCHANGED <<particleCount, random, treePositions>>
    /\ UNCHANGED <<visionVars, appVars, canvasVars, sceneVars, rafVars>>
    /\ UNCHANGED <<audioVars, lifeVars>>

\* The main effect after the two calls have returned: it builds the scene,
\* the particles on a copy of the tree cloud, and calls animate(), which
\* requests the next frame and, the landmarker not being loaded, goes on to
\* write the scene and to render.
MainEffectAnimate ==
    /\ treePositions.status = "array"
    /\ spherePositions.status = "array"
    /\ ~animFrame.rendered
    /\ geometry' = [g \in DOMAIN GeometrySetup(scene, treePositions.array) |->
                       IF g = scene.particles.geometry
                       THEN MorphLoop(treePositions.array, 0, particleCount,
                                      treePositions.array, spherePositions.array,
                                      morph, 0)
                       ELSE treePositions.array]
    /\ scene' = FrameScene(scene, 0, FirstFlicker)
    /\ materials' = TwinkleLoop(materials, scene.decGroup.children, 0, 0)
    /\ animFrame' = Frame(0, FirstFlicker, morph, TRUE)
    /\ rafQueue' = <<"animate">>
    /\ UNCHANGED <<rafRun, visionVars, appVars, canvasVars, cloudVars>>
    /\ UNCHANGED <<audioVars, lifeVars>>

NextGeometry ==
    \/ GenerateTree
    \/ GenerateSphere
    \/ MainEffectAnimate

SpecGeometry == InitGeometry /\ [][NextGeometry]_vars

----------------------------------------------------------------------------
(* The classifier: claims C1 - C5, under SpecVision *)

ServiceReady == handLandmarker /\ svcVideo /\ video.videoWidth # 0

\* the last call of detect ran the landmarker and it found a hand
HandDetected == results.ran /\ Len(results.landmarks) > 0
DetectedHand == results.landmarks[1]
FullHandDetected == HandDetected /\ Len(DetectedHand) = FullHandLen

\* squared planar distance of landmark j of hand h from its wrist
Dist2(h, j) ==
    (At(h, j).x - At(h, 0).x) * (At(h, j).x - At(h, 0).x)
    + (At(h, j).y - At(h, 0).y) * (At(h, j).y - At(h, 0).y)

\* the fingers of h whose tip is nearer to the wrist than 1.2 times the
\* joint's distance: dTip^2 * 25 < dPip^2 * 36
CurledFingers(h) == { i \in 1..4 : 25 * Dist2(h, tips[i]) < 36 * Dist2(h, pips[i]) }

\* C1: a call of detect that does not reach the landmarker (among others
\* because the video's timestamp equals the last processed one), or in which
\* the landmarker finds no hand, returns ('None', false); and while the
\* timestamp equals the last processed one no call obtains a new detection.
C1_NoSignal ==
    /\ [](~results.ran \/ results.landmarks = <<>> => ret = Returned("None", FALSE))
    /\ [][ServiceReady /\ video.currentTime = lastVideoTime
            => results' = results \/ ~results'.ran]_vars

\* a call on a frame that shows a fist but has the timestamp already
\* processed returned ('None', false)
C1_Witness ==
    /\ ServiceReady
    /\ video.frame = <<Fist>>
    /\ video.currentTime = lastVideoTime
    /\ ~results.ran
    /\ ret = Returned("None", FALSE)

\* C2: on a new frame with a full landmark set the label is Closed_Fist
\* exactly when at least 3 of the 4 fingers are curled, a finger being curled
\* iff its planar tip-to-wrist distance is strictly less than 1.2 times its
\* joint-to-wrist distance; otherwise the label is Open_Palm.
C2_FistIffThreeCurled ==
    FullHandDetected =>
        /\ ret.gesture \in {"Closed_Fist", "Open_Palm"}
        /\ ret.gesture = "Closed_Fist" <=> Cardinality(CurledFingers(DetectedHand)) >= 3

\* a hand with exactly three curled fingers was labelled a fist, one of them
\* curled only in the plane, the fourth on the edge of the margin
C2_Witness ==
    /\ FullHandDetected
    /\ Cardinality(CurledFingers(DetectedHand)) = 3
    /\ \E i \in 1..4 : 25 * Dist2(DetectedHand, tips[i]) = 36 * Dist2(DetectedHand, pips[i])
    /\ ret.gesture = "Closed_Fist"

AllTipsFarther(h) == \A i \in 1..4 : Dist2(h, tips[i]) > Dist2(h, pips[i])
AllTipsBeyondMargin(h) == \A i \in 1..4 : 25 * Dist2(h, tips[i]) >= 36 * Dist2(h, pips[i])

\* C3 as stated: a new frame whose four fingertips are all farther from the
\* wrist than their joints (dTip > dPip) is returned as (Open_Palm, true).
C3_Original ==
    FullHandDetected /\ AllTipsFarther(DetectedHand) => ret = Returned("Open_Palm", TRUE)

\* C3 as amended: a new frame whose four fingertips are all at least 1.2
\* times as far from the wrist as their joints is returned as
\* (Open_Palm, true).
C3_PalmBeyondMargin ==
    FullHandDetected /\ AllTipsBeyondMargin(DetectedHand) => ret = Returned("Open_Palm", TRUE)

\* a hand with every fingertip exactly 1.2 times as far out as its joint was
\* returned as an open palm
C3_Witness ==
    /\ FullHandDetected
    /\ \A i \in 1..4 : 25 * Dist2(DetectedHand, tips[i]) = 36 * Dist2(DetectedHand, pips[i])
    /\ ret = Returned("Open_Palm", TRUE)

\* C4: every call of detect in which the landmarker found a hand and which
\* returned a value returned isPresent true, whatever the label.
C4_PresentWhenDetected ==
    HandDetected /\ ~ret.threw => ret.isPresent

\* a detected hand that is not a fist was returned as present
C4_Witness ==
    /\ HandDetected
    /\ ret = Returned("Open_Palm", TRUE)
    /\ Cardinality(CurledFingers(DetectedHand)) = 2

\* C5 as stated: a detected hand with fewer than 21 landmarks makes detect
\* return ('None', false) as a value.
C5_FailClosed ==
    HandDetected /\ Len(DetectedHand) < FullHandLen => ret = Returned("None", FALSE)

----------------------------------------------------------------------------
(* Gesture -> mode -> morph: claims C6 - C10, under Spec *)

\* C6: the mode is TREE initially; once the gesture effect has run on the
\* label Closed_Fist the mode is TREE, and once it has run on Open_Palm the
\* mode is SPHERE.
C6_LabelSetsMode ==
    /\ mode = TREE
    /\ [](effGesture = "Closed_Fist" => mode = TREE)
    /\ [](effGesture = "Open_Palm" => mode = SPHERE)

\* the label Closed_Fist has brought the mode back from SPHERE, which the
\* canvas still shows
C6_Witness ==
    /\ effGesture = "Closed_Fist"
    /\ mode = TREE
    /\ targetMode = SPHERE

\* the value the morph is heading for: the target of the newest live tween,
\* or the value at rest
MorphGoal == IF tweens = <<>> THEN morph ELSE tweens[Len(tweens)].e

\* C7: while the label is 'None' and stays 'None' (frames classified
\* ('None', false), the gesture effect running on 'None', ticks of the tween)
\* the mode, the mode the canvas has taken over and the value the morph is
\* heading for do not change, and no tween is started.
C7_NoneKeepsMode ==
    [][visionState.gesture = "None" /\ visionState'.gesture = "None" /\ targetMode = mode
        => /\ mode' = mode
           /\ targetMode' = targetMode
           /\ MorphGoal' = MorphGoal
           /\ Len(tweens') <= Len(tweens)]_vars

\* the label has gone from Open_Palm to 'None', the effect has run on it, and
\* the sphere is still the mode, fully morphed
C7_Witness ==
    /\ visionState = NoVision
    /\ effGesture = "None"
    /\ mode = SPHERE
    /\ targetMode = SPHERE
    /\ tweens = <<>>
    /\ morph = MorphOne

\* C8: the morph value is within [0, 1] in every reachable state, and so
\* is the start value of every tween begun while another was in flight.
C8_MorphInRange ==
    /\ morph \in 0..MorphOne
    /\ \A i \in 1..Len(tweens) : tweens[i].init => tweens[i].s \in 0..MorphOne

\* a transition interrupted in flight: two live tweens, the value strictly
\* between 0 and 1
C8_Witness ==
    /\ Len(tweens) = 2
    /\ tweens[1].init /\ tweens[2].init
    /\ morph \in 1..(MorphOne - 1)

\* a step of the ticker: the live tweens change and no tween is added
IsTick == tweens' # tweens /\ targetMode' = targetMode

\* in a tick, the number of tweens that end (the oldest ones)
Ended == Len(tweens) - Len(tweens')

\* in a tick, the value tween i of the old list writes to the field
Written(i) ==
    IF i > Ended
    THEN TweenValue(tweens'[i - Ended].s, tweens'[i - Ended].e, tweens'[i - Ended].t)
    ELSE tweens[i].e

\* C9: a tween started while another is in flight takes as its start value
\* the value the field holds when it first renders (what the older tween has
\* just written, not 0 or 1); from then on the field holds what the newest
\* tween writes, the older tween's writes being replaced in the same tick;
\* and when no tween is live the morph value rests at the target of the
\* last mode change the canvas has taken over.
C9_LastTransitionWins ==
    /\ [](tweens = <<>> => morph = MorphTarget(targetMode))
    /\ [][IsTick =>
            /\ \A j \in 1..Len(tweens') : tweens'[j].init
            /\ morph' = Written(Len(tweens))
            /\ \A i \in 1..Len(tweens) :
                  tweens[i].t = 0 /\ i > Ended
                  => tweens'[i - Ended].s = IF i = 1 THEN morph ELSE Written(i - 1)]_vars

\* a tween toward the other end started from a value strictly inside the
\* range while the older tween is still live
C9_Witness ==
    /\ Len(tweens) = 2
    /\ tweens[1].init /\ tweens[2].init
    /\ tweens[1].e # tweens[2].e
    /\ tweens[2].s \in 1..(MorphOne - 1)

\* the only live tween runs from 0 to 1
SoleRiseFromZero ==
    /\ Len(tweens) = 1
    /\ tweens[1].e = MorphOne
    /\ IF tweens[1].init THEN tweens[1].s = 0 ELSE morph = 0

\* C10: a transition from 0 to 1 that is not interrupted never lowers the
\* morph value and never takes it past 1, stays live until its duration has
\* elapsed, and leaves the value exactly 1 when it has.
C10_RiseMonotoneExact ==
    [][SoleRiseFromZero /\ IsTick =>
          /\ morph <= morph'
          /\ morph' <= MorphOne
          /\ IF tweens' = <<>>
             THEN morph' = MorphOne
             ELSE /\ tweens'[1].t > tweens[1].t
                  /\ tweens'[1].t < MorphDuration]_vars

\* the transition from 0 to 1 alone and under way
C10_Witness ==
    /\ SoleRiseFromZero
    /\ tweens[1].init
    /\ tweens[1].t > 0
    /\ morph \in 1..(MorphOne - 1)

----------------------------------------------------------------------------
(* The point clouds: claims C13 - C15 and C17 *)

\* the point held at index i (from 0) of a position array
PointAt(array, i) == <<array[3 * i + 1], array[3 * i + 2], array[3 * i + 3]>>

\* an array of exactly count points, point i (from 0) being points[i + 1]
HoldsPoints(ref, count, points) ==
    /\ Len(ref.array) = 3 * count
    /\ \A i \in 0..(count - 1) : PointAt(ref.array, i) = points[i + 1]

\* C13: for every particle count N, generateTreePositions(N) and
\* generateSpherePositions(N) each return an array of exactly 3N
\* coordinates holding the N points their loops computed, so every index
\* below N exists in both clouds.
C13_ExactlyNPoints ==
    /\ treePositions.status = "array" =>
           HoldsPoints(treePositions, particleCount,
                       [i \in 1..particleCount |-> TreePoint(random[i])])
    /\ spherePositions.status = "array" =>
           HoldsPoints(spherePositions, particleCount,
                       [i \in 1..particleCount |-> SpherePoint(random[i])])

\* both generators have returned for the largest count
C13_Witness ==
    /\ particleCount = MaxCount
    /\ treePositions.status = "array"
    /\ spherePositions.status = "array"
    /\ Len(treePositions.array) = Len(spherePositions.array)

\* squared distance of a point from the origin, and from the vertical axis
OriginDist2(p) == p[1] * p[1] + p[2] * p[2] + p[3] * p[3]
AxisDist2(p) == p[1] * p[1] + p[3] * p[3]

\* C14: every point of the sphere cloud lies at a distance from the origin
\* between minRadius 1.5 and maxRadius 8.0, and every point of the tree
\* cloud has a height between -8 and 8 and a radius from the vertical axis
\* that is not negative.
C14_RadiiInRange ==
    /\ spherePositions.status = "array" =>
           \A i \in 0..(particleCount - 1) :
               /\ OriginDist2(PointAt(spherePositions.array, i)) >= 150 * 150
               /\ OriginDist2(PointAt(spherePositions.array, i)) <= 800 * 800
    /\ treePositions.status = "array" =>
           \A i \in 0..(particleCount - 1) :
               /\ PointAt(treePositions.array, i)[2] >= 0 - 800
               /\ PointAt(treePositions.array, i)[2] <= 800
               /\ IntSqrt(AxisDist2(PointAt(treePositions.array, i))) >= 0

\* a sphere point on the inner shell itself and a tree point on the floor
C14_Witness ==
    /\ spherePositions.status = "array"
    /\ \E i \in 0..(particleCount - 1) :
           OriginDist2(PointAt(spherePositions.array, i)) = 150 * 150
    /\ \E i \in 0..(particleCount - 1) :
           PointAt(treePositions.array, i)[2] = 0 - 800

\* a step of animate: the callback is due and the step is not one of the
\* environment or of an effect
AnimateStep ==
    /\ NextDue("animate")
    /\ visionInit' = visionInit /\ video' = video
    /\ effGesture' = effGesture /\ targetMode' = targetMode

\* a step of animate that was not cut short by an exception of detect()
FrameStep == AnimateStep /\ animFrame'.rendered

\* C15: the tree cloud and the sphere cloud exist from startup on and no
\* step, of the frame loop, of a mode transition or of anything else,
\* changes a coordinate of either.
C15_CloudsNeverWritten ==
    [][/\ treePositions.status = "array" /\ spherePositions.status = "array"
       /\ treePositions' = treePositions
       /\ spherePositions' = spherePositions]_vars

\* a frame has blended the two clouds, after a mode transition, at a morph
\* value strictly between the two shapes
C15_Witness ==
    /\ animFrame.rendered
    /\ animFrame.time > 0
    /\ animFrame.currentMorph \in 1..(MorphOne - 1)
    /\ treePositions.array # spherePositions.array
    /\ geometry[scene.particles.geometry] # treePositions.array

\* the position buffer an object of type Points draws from
PositionsOf(points) == geometry[points.geometry]

\* C17: the mirrored particle cloud draws from the very position buffer of
\* the primary cloud, so in every state the positions of the two are the
\* same.
C17_MirrorSharesBuffer ==
    /\ scene.reflectParticles.geometry = scene.particles.geometry
    /\ PositionsOf(scene.reflectParticles) = PositionsOf(scene.particles)

\* the buffer as a frame after the first has written it, away from the tree
C17_Witness ==
    /\ animFrame.rendered
    /\ animFrame.time > 0
    /\ PositionsOf(scene.particles) # treePositions.array
    /\ PositionsOf(scene.reflectParticles) # treePositions.array

----------------------------------------------------------------------------
(* The mirror: claim C18 *)

\* C18: after every frame the reflection pivot has the x and y rotation of
\* the main pivot, the mirrored decoration group the rotation of the
\* decoration group, and the mirrored star group the position and the
\* rotation of the star group.
C18_MirrorFollows ==
    [][FrameStep =>
          /\ scene'.reflectionPivot.rotation.x = scene'.pivot.rotation.x
          /\ scene'.reflectionPivot.rotation.y = scene'.pivot.rotation.y
          /\ scene'.reflectDecGroup.rotation = scene'.decGroup.rotation
          /\ scene'.reflectionStarGroup.position = scene'.starGroup.position
          /\ scene'.reflectionStarGroup.rotation = scene'.starGroup.rotation]_vars

\* after a frame with the pivot tilted and turned, the decorations turned,
\* and the star moved and turned by the timelines of a transition
C18_Witness ==
    /\ animFrame.rendered
    /\ scene.pivot.rotation.x # 0
    /\ scene.pivot.rotation.y # 0
    /\ scene.decGroup.rotation.y # 0
    /\ scene.starGroup.position.y < 780
    /\ scene.starGroup.rotation.y # 0
    /\ scene.reflectionStarGroup.position = scene.starGroup.position
    /\ scene.reflectionStarGroup.rotation = scene.starGroup.rotation
    /\ scene.reflectionPivot.rotation = scene.pivot.rotation

----------------------------------------------------------------------------
(* The decorations: claims C19 and C20 *)

\* decoration k of the decoration group, and its mirror
Primary(k) == Object(scene.decGroup.children[k])
Mirrored(k) == Object(scene.reflectDecGroup.children[k])

\* the glow sprites among the children of a decoration
Glows(object) == { j \in DOMAIN object.children : object.children[j].type = "Sprite" }

\* C19: after every frame the emissive intensity of each mirrored
\* decoration and the opacity of its glow are below those of its primary
\* (the primary's values scaled by a factor below 1), and never the same.
C19_MirrorDamped ==
    animFrame.rendered =>
        \A k \in 1..Len(scene.decGroup.children) :
            /\ Primary(k).type = "Mesh" =>
                   materials[Mirrored(k).material] < materials[Primary(k).material]
            /\ \A j \in Glows(Primary(k)) :
                   materials[Mirrored(k).children[j].material]
                       < materials[Primary(k).children[j].material]

\* C20: the decoration group and its mirror have 40 members each in every
\* state from startup on.
C20_FortyDecorations ==
    /\ Len(scene.decGroup.children) = 40
    /\ Len(scene.reflectDecGroup.children) = 40

\* the groups grown to full scale by a transition to the sphere, with
\* frames and a gesture behind them
C20_Witness ==
    /\ Len(scene.decGroup.children) = DecorationCount
    /\ targetMode = SPHERE
    /\ scene.decGroup.scale = Centi
    /\ visionState.gesture = "Open_Palm"
    /\ animFrame.time > 0

----------------------------------------------------------------------------
(* The frame: claims C11, C12 and C16 *)

\* a step that starts a tween of the morph value or a timeline of the scene
StartsTimeline == Len(tweens') > Len(tweens) \/ Len(timelines') > Len(timelines)

\* C11: the morph tween and the timelines of the star and of the decoration
\* groups are started by a change of mode alone, one set per change: a step
\* that starts any has the mode differ from the one of the last start and
\* starts exactly one tween and one set of timelines; a step of the frame
\* loop starts none; and the mode itself changes only when the gesture
\* changes to a label other than None.
C11_StartedPerModeChange ==
    [][/\ StartsTimeline =>
              /\ mode # targetMode
              /\ targetMode' = mode
              /\ Len(tweens') = Len(tweens) + 1
              /\ Len(timelines') = Len(timelines) + Len(SceneTimelines(mode, scene))
       /\ AnimateStep =>
              /\ tweens' = tweens
              /\ timelines' = timelines
              /\ mode' = mode
       /\ mode' # mode =>
              /\ effGesture' # effGesture
              /\ effGesture' \in {"Closed_Fist", "Open_Palm"}]_vars

\* the one transition to the sphere under way, started by a palm that later
\* frames, at a later time of the clock, no longer report
C11_Witness ==
    /\ targetMode = SPHERE
    /\ mode = SPHERE
    /\ Len(tweens) = 1
    /\ tweens[1].e = MorphOne
    /\ Len(timelines) > 0
    /\ visionState.gesture = "None"
    /\ effGesture = "None"
    /\ animFrame.time > 0

\* the ticker's callback runs in an animation frame after animate has
\* blended in it
TickAfterBlend == rafRun # <<>> /\ NextDue("gsap") /\ animFrame.rendered

\* C12: in every frame the classification has run before its label is handed
\* on, and the morph value the frame blends with is not changed later in
\* the same frame: the ticker does not advance the morph tween after
\* animate has read the value.
C12_FrameOrder ==
    [][/\ FrameStep => visionState'.gesture = ret'.gesture
       /\ TickAfterBlend => morph' = animFrame.currentMorph]_vars

\* What a frame writes of the scene, the snow apart: the two pivots, the
\* turn of the decoration groups, the chasers, the star's mesh and its
\* mirror.  (The mirrored star group is a copy of the star group, which the
\* timelines move: claim C18.)
FrameOutputs(sc) ==
    [pivot           |-> sc.pivot,
     reflectionPivot |-> sc.reflectionPivot,
     decGroup        |-> sc.decGroup.rotation,
     reflectDecGroup |-> sc.reflectDecGroup.rotation,
     santa           |-> sc.santa,
     freeSnowman     |-> sc.freeSnowman,
     corgi           |-> sc.corgi,
     starMesh        |-> sc.starMesh,
     reflectStarMesh |-> sc.reflectStarMesh]

\* the scene after one frame with the inputs of the last frame, run on the
\* scene as it was set up
FreshFrame == FrameScene(SceneSetup(Snow(Len(scene.snow))), animFrame.time, animFrame.u)

\* the position buffer and the materials after such a frame
FreshPositions ==
    MorphLoop(Float32Array(3 * particleCount), 0, particleCount,
              treePositions.array, spherePositions.array,
              animFrame.currentMorph, animFrame.time)

FreshMaterials == TwinkleLoop(MaterialsSetup, scene.decGroup.children, 0, animFrame.time)

\* C16, as amended: what a frame leaves in the particles' position buffer, in
\* the decorations' materials, and in the pivots, the decoration groups'
\* turn, the chasers and the star is determined by the frame's time, morph
\* value and flicker draw alone, whatever the frames before it did; the
\* snow is not among these outputs.
C16_OutputsFromInputs ==
    animFrame.rendered =>
        /\ PositionsOf(scene.particles) = FreshPositions
        /\ materials = FreshMaterials
        /\ FrameOutputs(scene) = FrameOutputs(FreshFrame)

\* C16, as stated: every output of a frame is determined by the frame's
\* inputs alone, the snow's positions included.
C16_Original ==
    animFrame.rendered =>
        /\ PositionsOf(scene.particles) = FreshPositions
        /\ materials = FreshMaterials
        /\ FrameOutputs(scene) = FrameOutputs(FreshFrame)
        /\ scene.snow = FreshFrame.snow

\* a later frame, mid-transition, with the snow where only the frames
\* before it could have brought it
C16_Witness ==
    /\ animFrame.rendered
    /\ animFrame.time > 0
    /\ animFrame.currentMorph \in 1..(MorphOne - 1)
    /\ scene.snow # FreshFrame.snow
    /\ PositionsOf(scene.particles) = FreshPositions

----------------------------------------------------------------------------
(* Errors and degraded input: claims C21, C22 and C24 *)

\* C21: for a particle count N <= 0 the generators fail with an error, and
\* no frame is rendered from a cloud built with such a count.
C21_FailsBeforeFrame ==
    particleCount <= 0 =>
        /\ treePositions.status # "array"
        /\ spherePositions.status # "array"
        /\ ~animFrame.rendered

\* animate is among the callbacks requested for the next animation frame
AnimateRequested(queue) == \E k \in 1..Len(queue) : queue[k] = "animate"

\* C22: whatever the landmark input of a frame, absent or malformed, the
\* frame step runs to its end, to the rendering, and the next frame is
\* scheduled.
C22_LoopNeverStops ==
    [][AnimateStep => animFrame'.rendered /\ AnimateRequested(rafQueue')]_vars

\* C24: a call of detect for a video timestamp that is not greater than the
\* last processed one returns (None, false) and leaves the last processed
\* timestamp as it is.
C24_NotNewerIsNoFrame ==
    [][AnimateStep /\ video.currentTime <= lastVideoTime =>
          /\ ~ret'.threw
          /\ ret'.gesture = "None"
          /\ ~ret'.isPresent
          /\ lastVideoTime' = lastVideoTime]_vars

----------------------------------------------------------------------------
(* The decorations in the frame and in the transitions: claims C23, C25 *)

\* the mode has been taken over by the canvas and nothing is left to run
Settled == mode = targetMode /\ tweens = <<>> /\ timelines = <<>>

\* C23: once the mode has stopped changing and every timeline has finished,
\* the scale of the decoration group and of its mirror is 0 in the mode TREE
\* and 1 in the mode SPHERE, whatever changes of mode came before.
C23_ScaleFollowsMode ==
    Settled =>
        /\ scene.decGroup.scale = (IF mode = TREE THEN 0 ELSE Centi)
        /\ scene.reflectDecGroup.scale = (IF mode = TREE THEN 0 ELSE Centi)

\* the emissive intensity of a decoration: the one of its material when it
\* is a Mesh, the one of its body when it is a floating snowman
EmissiveIntensity(object) ==
    IF object.type = "Mesh" THEN materials[object.material] ELSE SnowEmissive

\* 0.7 + sin(2t + p) * 0.15 + cos(5.3t + p) * 0.05 for decoration k at the
\* time t of the frame, with p = 13 * (k - 1) + the decoration's own x
Twinkle(k) ==
    LET t == animFrame.time
        p == 13 * (k - 1) * Centi + Primary(k).position.x
    IN  70 + Times(Sin(2 * t + p), 15) + Times(Cos((53 * t) \div 10 + p), 5)

\* C25 as stated: after every frame every decoration, of whatever kind, has
\* the emissive intensity 0.7 + sin(2t+p)*0.15 + cos(5.3t+p)*0.05.
C25_Original ==
    animFrame.rendered =>
        \A k \in 1..Len(scene.decGroup.children) :
            EmissiveIntensity(Primary(k)) = Twinkle(k)

\* C25: after every frame every decoration that is a Mesh (a gift or a
\* bauble) has the emissive intensity 0.7 + sin(2t+p)*0.15 +
\* cos(5.3t+p)*0.05 with p = 13 * i + its own x; a floating snowman, a
\* Group, keeps the emissive intensity of its making.
C25_MeshesTwinkle ==
    animFrame.rendered =>
        \A k \in 1..Len(scene.decGroup.children) :
            EmissiveIntensity(Primary(k)) =
                IF Primary(k).type = "Mesh" THEN Twinkle(k) ELSE SnowEmissive

\* a frame after the first, with a gift, a bauble and a snowman in the set,
\* and two meshes out of step
C25_Witness ==
    /\ animFrame.rendered
    /\ animFrame.time > 0
    /\ \E g, b, s \in 1..Len(scene.decGroup.children) :
          /\ Gift(DecorationDraw(g - 1))
          /\ Bauble(DecorationDraw(b - 1))
          /\ Snowman(DecorationDraw(s - 1))
          /\ Primary(s).type = "Group"
          /\ EmissiveIntensity(Primary(g)) # EmissiveIntensity(Primary(b))

----------------------------------------------------------------------------
(* The chase: claim C26 *)

\* the place on the orbit of radius 13 at the phase `angle`
OnOrbit(position, angle) ==
    /\ position.x = Times(Cos(angle), 1300)
    /\ position.z = Times(Sin(angle), 1300)

\* C26: after every frame the leader is on the orbit at the shared angle
\* + 0.8, the first follower at the shared angle and the second follower at
\* the shared angle - 0.8, all three on the orbit of the same radius.
C26_FixedOrder ==
    animFrame.rendered =>
        LET angle == (animFrame.time * 4) \div 10
        IN  /\ OnOrbit(scene.santa.position, angle + 80)
            /\ OnOrbit(scene.freeSnowman.position, angle)
            /\ OnOrbit(scene.corgi.position, angle - 80)

\* a frame after the first, the three bodies at three places
C26_Witness ==
    /\ animFrame.rendered
    /\ animFrame.time > 0
    /\ scene.santa.position # scene.freeSnowman.position
    /\ scene.freeSnowman.position # scene.corgi.position
    /\ scene.santa.position.x # Times(Cos(80), 1300)

----------------------------------------------------------------------------
(* The gifts: claim C28 *)

\* the gifts of a list
Gifts(list) == { list[k] : k \in 1..Len(list) }

\* a step in which a gift becomes the active one
Opens == activeGift' # activeGift /\ activeGift' # 0

\* the gesture effect runs for a change to `gesture`
ChangeTo(gesture) == effGesture # gesture /\ effGesture' = gesture

\* C28: a gift is opened only on a change to Open_Palm while no gift is
\* active; opening takes exactly that gift out of the unopened list, which
\* nothing else changes and which never holds the active gift, so that no
\* gift is opened twice; a change to Closed_Fist clears the active gift and
\* leaves the list.
C28_OpenedOnce ==
    [][/\ Opens => /\ ChangeTo("Open_Palm")
                   /\ activeGift = 0
                   /\ activeGift' \in Gifts(unopenedGifts)
                   /\ Gifts(unopenedGifts') = Gifts(unopenedGifts) \ {activeGift'}
                   /\ Len(unopenedGifts') = Len(unopenedGifts) - 1
       /\ unopenedGifts' # unopenedGifts => Opens
       /\ activeGift' \notin Gifts(unopenedGifts')
       /\ ChangeTo("Closed_Fist") => activeGift' = 0 /\ unopenedGifts' = unopenedGifts
      ]_vars

\* the second of two gifts open after the first was opened and closed
C28_Witness ==
    /\ activeGift = 2
    /\ unopenedGifts = <<>>
    /\ effGesture = "Open_Palm"

----------------------------------------------------------------------------
(* The music: claim C27 *)

\* a step in which a promise of play() settles
Settles == audio'.pending < audio.pending

\* a step of the element's error event
ErrorEvent == audio'.error # audio.error

\* C27: the lock is held exactly while a play() is pending, of which there
\* is never more than one; while it is held, a step that is not the
\* settling of that play (nor the element's error event) changes neither the
\* audio element nor isMusicPlaying nor the lock; and the settling, by
\* resolving or by rejecting, releases the lock.
C27_PlayAndPauseExclusive ==
    [][/\ audioLock' <=> audio'.pending = 1
       /\ audio'.pending <= 1
       /\ audioLock /\ ~Settles /\ ~ErrorEvent => UNCHANGED audioVars
       /\ Settles => ~audioLock'
      ]_vars

\* a play pending for the second time, the first having resolved: the lock
\* held again while the music is shown as playing
C27_Witness ==
    /\ audioLock
    /\ audio.pending = 1
    /\ isMusicPlaying
    /\ visionInit = "started"

----------------------------------------------------------------------------
(* The life of the landmarker and of the canvas: claims C29 and C30 *)

\* C29: whatever the interleaving of the calls of initialize(), at most one
\* HandLandmarker is created.
C29_OneLandmarker == created <= 1

\* C30: once the canvas is unmounted, no track of the stream it opened is
\* live and no frame of animate is requested or running.
C30_NothingLeftAfterUnmount ==
    ~mounted =>
        /\ stream # "live"
        /\ ~AnimateRequested(rafQueue)
        /\ ~AnimateRequested(rafRun)

====
